---- MODULE Spec2Model ----
(***************************************************************************)
(* A model of the collaborative drawing canvas: the server's Room class,   *)
(* room registry and socket handlers (server.js), and the browser client's *)
(* operation history and socket listeners (public/canvas.js,               *)
(* public/websocket.js).                                                   *)
(*                                                                         *)
(* Four specifications share the server's handlers:                        *)
(*   Spec      the server driven by arbitrary events on its connections,   *)
(*             all of them joining the well-known room;                    *)
(*   SpecRooms the server driven by arbitrary events, with joins of either *)
(*             room and switches between them, and few strokes;            *)
(*   SpecSync  the repository's own clients talking to the server over     *)
(*             one ordered channel per socket in each direction;           *)
(*   SpecReconnect  SpecSync with clients that lose their transport and    *)
(*             reconnect on a new socket (socket.io reconnection).         *)
(*                                                                         *)
(* Not modelled: canvas pixels, the DOM, the client's users map and        *)
(* cursors, the userData spread into the participant record, the REST      *)
(* endpoints.                                                              *)
(***************************************************************************)
EXTENDS Integers, Sequences, FiniteSets

\* ------------------------------------------------------------------ bounds

\* Operation ids ever issued (ids are unique: op-<Date.now()>-<Math.random()>).
MaxOps == 3
\* User gestures (draw, undo, redo, clear, close) the clients of SpecSync make.
MaxGestures == 3
\* Operation ids ever issued in SpecRooms.
MaxRoomOps == 2

\* Socket ids: one per transport connection, never reused, in the order issued.
SocketIds == <<"s1", "s2", "s3">>
Conns == {SocketIds[i] : i \in 1..Len(SocketIds)}
\* Room ids a room:join may name; "default" is the server's well-known room.
RoomIds == {"default", "r1"}
\* Participant ids a client may choose (WebSocketManager.userId).
UserIds == {"u1", "u2"}
\* A field missing from a payload (undefined).
Absent == "absent"
\* An operation's timestamp: missing, set by the client, or Date.now() on the server.
ClientTime == "client"
ServerTime == "server"

\* ------------------------------------------------------------------ values

\* JavaScript null, as an operation and as a participant.
null == [id |-> 0, userId |-> "null", timestamp |-> "null"]
nullUser == [id |-> "null", socketId |-> "null"]

\* Map helpers (JavaScript Map: set, delete).
EmptyMap == [x \in {} |-> x]
MapSet(m, k, v) == [x \in (DOMAIN m) \cup {k} |-> IF x = k THEN v ELSE m[x]]
MapDelete(m, k) == [x \in (DOMAIN m) \ {k} |-> m[x]]
MapValues(m) == {m[x] : x \in DOMAIN m}

\* Array.prototype.slice(0, end): a negative end counts from the end.
Slice(s, end) ==
  LET e == IF end < 0 THEN Len(s) + end ELSE end
      n == IF e < 0 THEN 0 ELSE IF e > Len(s) THEN Len(s) ELSE e
  IN SubSeq(s, 1, n)

\* array[i] with a 0-based index; undefined (falsy, modelled as null) out of range.
At(s, i) == IF i >= 0 /\ i < Len(s) THEN s[i + 1] ELSE null

\* ------------------------------------------------------------------ Room

\* new Room(roomId)
NewRoom(roomId) ==
  [roomId |-> roomId, operations |-> <<>>, users |-> EmptyMap,
   currentOperationIndex |-> -1]

\* Room.addOperation: the room afterwards (the operation itself is returned).
RoomAddOperationKeepTail(room, operation) ==
  LET ops == Append(room.operations, operation)
  IN [room EXCEPT !.operations = ops, !.currentOperationIndex = Len(ops) - 1]
RoomAddOperation(room, operation) ==
  LET kept == Slice(room.operations, room.currentOperationIndex + 1)
      ops == Append(kept, operation)
  IN [room EXCEPT !.operations = ops, !.currentOperationIndex = Len(ops) - 1]

\* Room.undo: the room afterwards and the value returned.
RoomUndoNoGuard(room) ==
  [room |-> [room EXCEPT !.currentOperationIndex = @ - 1],
   result |-> At(room.operations, room.currentOperationIndex)]
RoomUndo(room) ==
  IF room.currentOperationIndex < 0
  THEN [room |-> room, result |-> null]
  ELSE [room |-> [room EXCEPT !.currentOperationIndex = @ - 1],
        result |-> room.operations[room.currentOperationIndex + 1]]

\* Room.redo: the room afterwards and the value returned.
RoomRedoNoAdvance(room) ==
  IF room.currentOperationIndex >= Len(room.operations) - 1
  THEN [room |-> room, result |-> null]
  ELSE [room |-> room, result |-> room.operations[room.currentOperationIndex + 2]]
RoomRedoNoGuard(room) ==
  [room |-> [room EXCEPT !.currentOperationIndex = @ + 1],
   result |-> At(room.operations, room.currentOperationIndex + 1)]
RoomRedo(room) ==
  IF room.currentOperationIndex >= Len(room.operations) - 1
  THEN [room |-> room, result |-> null]
  ELSE [room |-> [room EXCEPT !.currentOperationIndex = @ + 1],
        result |-> room.operations[room.currentOperationIndex + 2]]

\* Room.getOperations
RoomGetOperationsAll(room) == room.operations
RoomGetOperations(room) == Slice(room.operations, room.currentOperationIndex + 1)

\* Room.addUser, Room.removeUser, Room.getUsers (the order of the list is not modelled)
RoomAddUser(room, userId, userData) ==
  [room EXCEPT !.users = MapSet(@, userId, userData)]
RoomRemoveUserKeep(room, userId) == room
RoomRemoveUser(room, userId) == [room EXCEPT !.users = MapDelete(@, userId)]
RoomGetUsers(room) == MapValues(room.users)

\* Room.clear
RoomClearKeepOps(room) == [room EXCEPT !.currentOperationIndex = -1]
RoomClear(room) == [room EXCEPT !.operations = <<>>, !.currentOperationIndex = -1]

\* getRoom(roomId): the registry afterwards; the room is GetRoom(reg, roomId)[roomId].
GetRoom(reg, roomId) ==
  IF roomId \in DOMAIN reg THEN reg ELSE MapSet(reg, roomId, NewRoom(roomId))

\* ------------------------------------------------------------------ state

VARIABLES
  rooms,        \* server: const rooms = new Map(), roomId -> Room
  users,        \* server: const users = new Map(), socket.id -> participant
  connState,    \* per socket: "idle" (not yet connected), "open", "closed"
  currentRoom,  \* per socket: the handler closure's currentRoom
  currentUser,  \* per socket: the handler closure's currentUser
  joined,       \* per socket: the socket.io rooms it is in (socket.join / leave)
  nextId,       \* the next fresh operation id
  handled,      \* the event the server handled in the step into this state
  emitted,      \* the emit calls of that handler, in order
  c2s,          \* per socket: messages sent by the client, not yet handled
  s2c,          \* per socket: messages emitted to it, not yet received
  sock,         \* per client: its socket, or NoSock
  canvas,       \* per client: CanvasManager.operations / currentOperationIndex
  gestures      \* user gestures made so far (SpecSync)

serverVars == <<rooms, users, connState, currentRoom, currentUser, joined>>
clientVars == <<c2s, s2c, sock, canvas, gestures>>
vars == <<rooms, users, connState, currentRoom, currentUser, joined, nextId,
          handled, emitted, c2s, s2c, sock, canvas, gestures>>

NoSock == "none"
NoEvent == [type |-> "none", conn |-> "none", data |-> "none"]

\* ------------------------------------------------------------------ emit

\* socket.emit: this socket only.
SocketEmit(c, type, payload) == [type |-> type, to |-> {c}, payload |-> payload]
\* socket.to(room).emit: every socket in the socket.io room except this one.
SocketToEmit(jn, c, room, type, payload) ==
  [type |-> type, to |-> {d \in Conns : room \in jn[d]} \ {c}, payload |-> payload]
\* io.to(room).emit: every socket in the socket.io room.
IoToEmitEveryRoom(jn, room, type, payload) ==
  [type |-> type, to |-> {d \in Conns : jn[d] # {}}, payload |-> payload]
IoToEmit(jn, room, type, payload) ==
  [type |-> type, to |-> {d \in Conns : room \in jn[d]}, payload |-> payload]

\* ------------------------------------------------------------------ server

Event(type, c, data) == [type |-> type, conn |-> c, data |-> data]

\* The socket id of the next connection: the first one not yet issued.
IsNextSocket(c) ==
  \E i \in 1..Len(SocketIds) :
    /\ c = SocketIds[i]
    /\ connState[c] = "idle"
    /\ \A j \in 1..(i - 1) : connState[SocketIds[j]] # "idle"

\* io.on('connection'): the closure's initial currentRoom and currentUser.
HandleConnection(c) ==
  /\ IsNextSocket(c)
  /\ connState' = [connState EXCEPT ![c] = "open"]
  /\ currentRoom' = [currentRoom EXCEPT ![c] = "default"]
  /\ currentUser' = [currentUser EXCEPT ![c] = nullUser]
  /\ handled' = Event("connection", c, "none")
  /\ emitted' = <<>>
  /\ UNCHANGED <<rooms, users, joined>>

\* The emits of the room:join handler.
JoinEmitsJoinedToAll(jn, c, roomId, room, user) ==
  << SocketEmit(c, "room:state",
                [operations |-> RoomGetOperations(room), users |-> RoomGetUsers(room)]),
     IoToEmit(jn, roomId, "user:joined", user),
     IoToEmit(jn, roomId, "users:update", RoomGetUsers(room)) >>
JoinEmits(jn, c, roomId, room, user) ==
  << SocketEmit(c, "room:state",
                [operations |-> RoomGetOperations(room), users |-> RoomGetUsers(room)]),
     SocketToEmit(jn, c, roomId, "user:joined", user),
     IoToEmit(jn, roomId, "users:update", RoomGetUsers(room)) >>

\* The destructuring default of the room:join payload: roomId = 'default'.
JoinRoomIdNoDefault(data) == data.roomId
JoinRoomId(data) == IF data.roomId = Absent THEN "default" ELSE data.roomId

\* socket.on('room:join')
HandleJoin(c, data) ==
  LET roomId == JoinRoomId(data)
      jn == [joined EXCEPT ![c] = (@ \ {currentRoom[c]}) \cup {roomId}]
      reg == GetRoom(rooms, roomId)
      user == [id |-> IF data.userId = Absent THEN c ELSE data.userId, socketId |-> c]
      reg2 == [reg EXCEPT ![roomId] = RoomAddUser(@, user.id, user)]
  IN /\ connState[c] = "open"
     /\ joined' = jn
     /\ currentRoom' = [currentRoom EXCEPT ![c] = roomId]
     /\ currentUser' = [currentUser EXCEPT ![c] = user]
     /\ rooms' = reg2
     /\ users' = MapSet(users, c, user)
     /\ handled' = Event("room:join", c, data)
     /\ emitted' = JoinEmits(jn, c, roomId, reg2[roomId], user)
     /\ UNCHANGED connState

\* The emit of the draw:event handler.
DrawEmitsToAll(jn, c, roomId, savedOperation) ==
  << IoToEmit(jn, roomId, "draw:event", savedOperation) >>
DrawEmits(jn, c, roomId, savedOperation) ==
  << SocketToEmit(jn, c, roomId, "draw:event", savedOperation) >>

\* socket.on('draw:event')
HandleDraw(c, operation) ==
  LET roomId == currentRoom[c]
      reg == GetRoom(rooms, roomId)
      stamped == IF operation.timestamp = Absent
                 THEN [operation EXCEPT !.timestamp = ServerTime] ELSE operation
  IN /\ connState[c] = "open"
     /\ rooms' = [reg EXCEPT ![roomId] = RoomAddOperation(@, stamped)]
     /\ handled' = Event("draw:event", c, operation)
     /\ emitted' = DrawEmits(joined, c, roomId, stamped)
     /\ UNCHANGED <<users, connState, currentRoom, currentUser, joined>>

\* The emit of the cursor:move handler.
CursorEmitsToAll(jn, c, roomId, data) ==
  << IoToEmit(jn, roomId, "cursor:move", data) >>
CursorEmits(jn, c, roomId, data) ==
  << SocketToEmit(jn, c, roomId, "cursor:move", data) >>

\* socket.on('cursor:move')
HandleCursor(c, data) ==
  /\ connState[c] = "open"
  /\ handled' = Event("cursor:move", c, data)
  /\ emitted' = CursorEmits(joined, c, currentRoom[c], data)
  /\ UNCHANGED serverVars

\* The emits of the operation:undo handler, given what Room.undo returned.
UndoEmitsToOthers(jn, c, roomId, undone) ==
  IF undone.result # null
  THEN << SocketToEmit(jn, c, roomId, "operation:undo",
                       [operationId |-> undone.result.id,
                        currentIndex |-> undone.room.currentOperationIndex]) >>
  ELSE <<>>
UndoEmits(jn, c, roomId, undone) ==
  IF undone.result # null
  THEN << IoToEmit(jn, roomId, "operation:undo",
                   [operationId |-> undone.result.id,
                    currentIndex |-> undone.room.currentOperationIndex]) >>
  ELSE <<>>

\* socket.on('operation:undo')
HandleUndo(c) ==
  LET roomId == currentRoom[c]
      reg == GetRoom(rooms, roomId)
      undone == RoomUndo(reg[roomId])
  IN /\ connState[c] = "open"
     /\ rooms' = [reg EXCEPT ![roomId] = undone.room]
     /\ handled' = Event("operation:undo", c, "none")
     /\ emitted' = UndoEmits(joined, c, roomId, undone)
     /\ UNCHANGED <<users, connState, currentRoom, currentUser, joined>>

\* The emits of the operation:redo handler, given what Room.redo returned.
RedoEmitsToOthers(jn, c, roomId, redone) ==
  IF redone.result # null
  THEN << SocketToEmit(jn, c, roomId, "operation:redo",
                       [operationId |-> redone.result.id,
                        currentIndex |-> redone.room.currentOperationIndex]) >>
  ELSE <<>>
RedoEmits(jn, c, roomId, redone) ==
  IF redone.result # null
  THEN << IoToEmit(jn, roomId, "operation:redo",
                   [operationId |-> redone.result.id,
                    currentIndex |-> redone.room.currentOperationIndex]) >>
  ELSE <<>>

\* socket.on('operation:redo')
HandleRedo(c) ==
  LET roomId == currentRoom[c]
      reg == GetRoom(rooms, roomId)
      redone == RoomRedo(reg[roomId])
  IN /\ connState[c] = "open"
     /\ rooms' = [reg EXCEPT ![roomId] = redone.room]
     /\ handled' = Event("operation:redo", c, "none")
     /\ emitted' = RedoEmits(joined, c, roomId, redone)
     /\ UNCHANGED <<users, connState, currentRoom, currentUser, joined>>

\* The emit of the canvas:clear handler.
ClearEmitsToOthers(jn, c, roomId) ==
  << SocketToEmit(jn, c, roomId, "canvas:clear", "none") >>
ClearEmits(jn, c, roomId) ==
  << IoToEmit(jn, roomId, "canvas:clear", "none") >>

\* socket.on('canvas:clear')
HandleClear(c) ==
  LET roomId == currentRoom[c]
      reg == GetRoom(rooms, roomId)
  IN /\ connState[c] = "open"
     /\ rooms' = [reg EXCEPT ![roomId] = RoomClear(@)]
     /\ handled' = Event("canvas:clear", c, "none")
     /\ emitted' = ClearEmits(joined, c, roomId)
     /\ UNCHANGED <<users, connState, currentRoom, currentUser, joined>>

\* The emit of the ping handler.
PingEmitsServerTime(c, timestamp) == << SocketEmit(c, "pong", ServerTime) >>
PingEmits(c, timestamp) == << SocketEmit(c, "pong", timestamp) >>

\* socket.on('ping')
HandlePing(c, timestamp) ==
  /\ connState[c] = "open"
  /\ handled' = Event("ping", c, timestamp)
  /\ emitted' = PingEmits(c, timestamp)
  /\ UNCHANGED serverVars

\* socket.on('disconnect'): socket.io has taken the socket out of its rooms
\* before the listener runs. No handler of this socket runs afterwards, so the
\* closure's variables are dropped (reset) with it.
HandleDisconnect(c) ==
  LET roomId == currentRoom[c]
      jn == [joined EXCEPT ![c] = {}]
      bound == currentUser[c] # nullUser
      reg == IF bound THEN GetRoom(rooms, roomId) ELSE rooms
      reg1 == IF bound
              THEN [reg EXCEPT ![roomId] = RoomRemoveUser(@, currentUser[c].id)]
              ELSE reg
      reg2 == IF roomId \in DOMAIN reg1 /\ Cardinality(DOMAIN reg1[roomId].users) = 0
              THEN MapDelete(reg1, roomId) ELSE reg1
  IN /\ connState[c] = "open"
     /\ connState' = [connState EXCEPT ![c] = "closed"]
     /\ joined' = jn
     /\ rooms' = reg2
     /\ users' = IF bound THEN MapDelete(users, c) ELSE users
     /\ handled' = Event("disconnect", c, "none")
     /\ emitted' = IF bound
                   THEN << SocketToEmit(jn, c, roomId, "user:left", currentUser[c]),
                           IoToEmit(jn, roomId, "users:update", RoomGetUsers(reg1[roomId])) >>
                   ELSE <<>>
     /\ currentRoom' = [currentRoom EXCEPT ![c] = "default"]
     /\ currentUser' = [currentUser EXCEPT ![c] = nullUser]

\* ------------------------------------------------------------------ Spec

\* Payloads the connections of Spec send: joins of the well-known room under the
\* socket's own id, strokes of either author without a timestamp.
JoinPayloads == [roomId : {"default", Absent}, userId : {Absent}]
DrawPayloads == [id : {nextId}, userId : UserIds, timestamp : {Absent}]
CursorPayloads == [userId : {"u1"}, x : {"x1", "x2"}, y : {"y"}]
PingTokens == {"t1", "t2"}

Init ==
  /\ rooms = EmptyMap
  /\ users = EmptyMap
  /\ connState = [c \in Conns |-> "idle"]
  /\ currentRoom = [c \in Conns |-> "default"]
  /\ currentUser = [c \in Conns |-> nullUser]
  /\ joined = [c \in Conns |-> {}]
  /\ nextId = 1
  /\ handled = NoEvent
  /\ emitted = <<>>
  /\ c2s = [c \in Conns |-> <<>>]
  /\ s2c = [c \in Conns |-> <<>>]
  /\ sock = [u \in UserIds |-> NoSock]
  /\ canvas = [u \in UserIds |-> [operations |-> <<>>, currentOperationIndex |-> -1]]
  /\ gestures = 0

OnConnection(c) == HandleConnection(c) /\ UNCHANGED <<nextId, clientVars>>
OnRoomJoin(c) == \E data \in JoinPayloads : HandleJoin(c, data) /\ UNCHANGED <<nextId, clientVars>>
OnDrawEvent(c) ==
  /\ nextId <= MaxOps
  /\ \E operation \in DrawPayloads : HandleDraw(c, operation)
  /\ nextId' = nextId + 1
  /\ UNCHANGED clientVars
OnCursorMove(c) == \E data \in CursorPayloads : HandleCursor(c, data) /\ UNCHANGED <<nextId, clientVars>>
OnUndo(c) == HandleUndo(c) /\ UNCHANGED <<nextId, clientVars>>
OnRedo(c) == HandleRedo(c) /\ UNCHANGED <<nextId, clientVars>>
OnClear(c) == HandleClear(c) /\ UNCHANGED <<nextId, clientVars>>
OnPing(c) == \E t \in PingTokens : HandlePing(c, t) /\ UNCHANGED <<nextId, clientVars>>
OnDisconnect(c) == HandleDisconnect(c) /\ UNCHANGED <<nextId, clientVars>>

Next ==
  \E c \in Conns :
    \/ OnConnection(c)
    \/ OnRoomJoin(c)
    \/ OnDrawEvent(c)
    \/ OnCursorMove(c)
    \/ OnUndo(c)
    \/ OnRedo(c)
    \/ OnClear(c)
    \/ OnPing(c)
    \/ OnDisconnect(c)

Spec == Init /\ [][Next]_vars

\* ------------------------------------------------------------------ SpecRooms

\* Payloads the connections of SpecRooms send: joins of either room or of none,
\* under the socket's own id.
RoomJoinPayloads == [roomId : RoomIds \cup {Absent}, userId : {Absent}]
RoomDrawPayloads == [id : {nextId}, userId : {"u1"}, timestamp : {Absent}]

OnAnyRoomJoin(c) ==
  \E data \in RoomJoinPayloads : HandleJoin(c, data) /\ UNCHANGED <<nextId, clientVars>>
OnRoomDrawEvent(c) ==
  /\ nextId <= MaxRoomOps
  /\ \E operation \in RoomDrawPayloads : HandleDraw(c, operation)
  /\ nextId' = nextId + 1
  /\ UNCHANGED clientVars

NextRooms ==
  \E c \in Conns :
    \/ OnConnection(c)
    \/ OnAnyRoomJoin(c)
    \/ OnRoomDrawEvent(c)
    \/ OnCursorMove(c)
    \/ OnUndo(c)
    \/ OnRedo(c)
    \/ OnClear(c)
    \/ OnDisconnect(c)

SpecRooms == Init /\ [][NextRooms]_vars

\* ------------------------------------------------------------------ client

\* CanvasManager.addOperation
CanvasAddOperation(cm, operation) ==
  LET kept == Slice(cm.operations, cm.currentOperationIndex + 1)
      ops == Append(kept, operation)
  IN [operations |-> ops, currentOperationIndex |-> Len(ops) - 1]

\* CanvasManager.loadState
CanvasLoadState(cm, state) ==
  IF Len(state.operations) > 0
  THEN [operations |-> state.operations,
        currentOperationIndex |-> Len(state.operations) - 1]
  ELSE cm

\* What the canvas shows: operations.slice(0, currentOperationIndex + 1).
CanvasVisible(cm) == Slice(cm.operations, cm.currentOperationIndex + 1)

Msg(type, data) == [type |-> type, data |-> data]
Send(c, type, data) == c2s' = [c2s EXCEPT ![c] = Append(@, Msg(type, data))]

\* The sockets a client holds.
Attached(sk) == {sk[u] : u \in UserIds} \ {NoSock}

\* The emits of a handler, queued to every recipient whose client holds the socket.
Deliver(q, sk, emits) ==
  [d \in Conns |->
     IF d \in Attached(sk)
     THEN LET ForD(e) == d \in e.to IN q[d] \o SelectSeq(emits, ForD)
     ELSE q[d]]

\* A user gesture is possible: the socket is connected and the budget allows it.
CanGesture(u) == sock[u] # NoSock /\ gestures < MaxGestures

\* WebSocketManager.connect: a new socket; on 'connect' the client joins 'default'.
ClientConnect(u) ==
  /\ sock[u] = NoSock
  /\ \E c \in Conns :
       /\ HandleConnection(c)
       /\ sock' = [sock EXCEPT ![u] = c]
       /\ Send(c, "room:join", [roomId |-> "default", userId |-> u])
  /\ UNCHANGED <<nextId, s2c, canvas, gestures>>

\* CanvasManager.stopDrawing with a path of two points or more.
ClientDraw(u) ==
  LET operation == [id |-> nextId, userId |-> u, timestamp |-> ClientTime]
  IN /\ CanGesture(u)
     /\ nextId <= MaxOps
     /\ nextId' = nextId + 1
     /\ canvas' = [canvas EXCEPT ![u] = CanvasAddOperation(@, operation)]
     /\ Send(sock[u], "draw:event", operation)
     /\ gestures' = gestures + 1
     /\ handled' = NoEvent /\ emitted' = <<>>
     /\ UNCHANGED <<serverVars, s2c, sock>>

\* CanvasManager.undo
ClientUndo(u) ==
  /\ CanGesture(u)
  /\ ~(canvas[u].currentOperationIndex < 0)
  /\ canvas' = [canvas EXCEPT ![u].currentOperationIndex = @ - 1]
  /\ Send(sock[u], "operation:undo", "none")
  /\ gestures' = gestures + 1
  /\ handled' = NoEvent /\ emitted' = <<>>
  /\ UNCHANGED <<serverVars, nextId, s2c, sock>>

\* CanvasManager.redo
ClientRedo(u) ==
  /\ CanGesture(u)
  /\ ~(canvas[u].currentOperationIndex >= Len(canvas[u].operations) - 1)
  /\ canvas' = [canvas EXCEPT ![u].currentOperationIndex = @ + 1]
  /\ Send(sock[u], "operation:redo", "none")
  /\ gestures' = gestures + 1
  /\ handled' = NoEvent /\ emitted' = <<>>
  /\ UNCHANGED <<serverVars, nextId, s2c, sock>>

\* CanvasManager.clear
ClientClear(u) ==
  /\ CanGesture(u)
  /\ canvas' = [canvas EXCEPT ![u] = [operations |-> <<>>, currentOperationIndex |-> -1]]
  /\ Send(sock[u], "canvas:clear", "none")
  /\ gestures' = gestures + 1
  /\ handled' = NoEvent /\ emitted' = <<>>
  /\ UNCHANGED <<serverVars, nextId, s2c, sock>>

\* The socket.on listeners of WebSocketManager.setupEventListeners: the canvas after
\* one message.
ClientOn(u, cm, m) ==
  CASE m.type = "room:state" -> CanvasLoadState(cm, m.payload)
    [] m.type = "draw:event" ->
         IF m.payload.userId # u THEN CanvasAddOperation(cm, m.payload) ELSE cm
    [] m.type = "operation:undo" ->
         [cm EXCEPT !.currentOperationIndex = m.payload.currentIndex]
    [] m.type = "operation:redo" ->
         [cm EXCEPT !.currentOperationIndex = m.payload.currentIndex]
    [] m.type = "canvas:clear" -> [operations |-> <<>>, currentOperationIndex |-> -1]
    [] OTHER -> cm

\* The client receives the next message on its socket.
ClientReceive(u) ==
  /\ sock[u] # NoSock
  /\ s2c[sock[u]] # <<>>
  /\ canvas' = [canvas EXCEPT ![u] = ClientOn(u, @, Head(s2c[sock[u]]))]
  /\ s2c' = [s2c EXCEPT ![sock[u]] = Tail(@)]
  /\ handled' = NoEvent /\ emitted' = <<>>
  /\ UNCHANGED <<serverVars, nextId, c2s, sock, gestures>>

\* The server handles the next message of a socket and its emits are queued.
ServerReceive(c) ==
  /\ c2s[c] # <<>>
  /\ LET m == Head(c2s[c])
     IN \/ m.type = "room:join" /\ HandleJoin(c, m.data)
        \/ m.type = "draw:event" /\ HandleDraw(c, m.data)
        \/ m.type = "operation:undo" /\ HandleUndo(c)
        \/ m.type = "operation:redo" /\ HandleRedo(c)
        \/ m.type = "canvas:clear" /\ HandleClear(c)
  /\ c2s' = [c2s EXCEPT ![c] = Tail(@)]
  /\ s2c' = Deliver(s2c, sock, emitted')
  /\ UNCHANGED <<nextId, sock, canvas, gestures>>

NextSync ==
  \/ \E u \in UserIds :
       \/ ClientConnect(u)
       \/ ClientDraw(u)
       \/ ClientUndo(u)
       \/ ClientRedo(u)
       \/ ClientClear(u)
       \/ ClientReceive(u)
  \/ \E c \in Conns : ServerReceive(c)

SpecSync == Init /\ [][NextSync]_vars

\* ------------------------------------------------------------------ SpecReconnect

\* The client loses its transport (socket.io client, reconnection: true): what the
\* server had queued for the socket is lost; what the client had sent still arrives.
\* The CanvasManager keeps its operations, and a later connect joins again.
ClientClose(u) ==
  /\ CanGesture(u)
  /\ sock' = [sock EXCEPT ![u] = NoSock]
  /\ s2c' = [s2c EXCEPT ![sock[u]] = <<>>]
  /\ gestures' = gestures + 1
  /\ handled' = NoEvent /\ emitted' = <<>>
  /\ UNCHANGED <<serverVars, nextId, c2s, canvas>>

\* The server notices that a socket is gone, after the messages it had sent, and
\* runs the disconnect listener.
ServerDisconnect(c) ==
  /\ c \notin Attached(sock)
  /\ c2s[c] = <<>>
  /\ HandleDisconnect(c)
  /\ s2c' = Deliver(s2c, sock, emitted')
  /\ UNCHANGED <<nextId, c2s, sock, canvas, gestures>>

NextReconnect ==
  \/ \E u \in UserIds :
       \/ ClientConnect(u)
       \/ ClientDraw(u)
       \/ ClientUndo(u)
       \/ ClientRedo(u)
       \/ ClientClear(u)
       \/ ClientClose(u)
       \/ ClientReceive(u)
  \/ \E c \in Conns :
       \/ ServerReceive(c)
       \/ ServerDisconnect(c)

SpecReconnect == Init /\ [][NextReconnect]_vars

\* ------------------------------------------------------------------ claims

\* The ids of the operations of a list, and of a room's list in a registry.
Ids(ops) == {ops[i].id : i \in 1..Len(ops)}
OpIdsIn(reg, r) == IF r \in DOMAIN reg THEN Ids(reg[r].operations) ELSE {}
\* The operations of a list at the 0-based indices 0..i.
UpTo(ops, i) == SubSeq(ops, 1, i + 1)
\* The room a draw, undo, redo or clear step works on, before and after the step.
StepRoomId == currentRoom[handled'.conn]
RoomBefore == GetRoom(rooms, StepRoomId)[StepRoomId]
RoomAfter == rooms'[StepRoomId]
\* The connections bound to a room: open, joined, and the room is their current one.
InRoom(r) ==
  {c \in Conns : connState[c] = "open" /\ currentUser[c] # nullUser /\ currentRoom[c] = r}

\* The connections bound to a room once the step is taken.
InRoomAfter(r) ==
  {c \in Conns : connState'[c] = "open" /\ currentUser'[c] # nullUser /\ currentRoom'[c] = r}

\* An operation id that was issued and is not in a room's list never enters it.
NeverReturns ==
  \A r \in RoomIds, id \in 1..MaxOps :
    (id < nextId /\ id \notin OpIdsIn(rooms, r)) => id \notin OpIdsIn(rooms', r)

\* C1: Room.addOperation drops every operation above the cursor, appends the new
\* one and moves the cursor to it: the visible sequence is the previous visible
\* sequence followed by the operation, redo() then returns null, and an operation
\* that left the list never comes back.
C1_AppendTruncatesRedo ==
  [][ /\ handled'.type = "draw:event" =>
           LET stored == emitted'[1].payload
           IN /\ stored.id = handled'.data.id
              /\ RoomAfter.operations =
                   Append(UpTo(RoomBefore.operations, RoomBefore.currentOperationIndex),
                          stored)
              /\ RoomAfter.currentOperationIndex = Len(RoomAfter.operations) - 1
              /\ RoomGetOperations(RoomAfter) =
                   Append(RoomGetOperations(RoomBefore), stored)
              /\ RoomRedo(RoomAfter).result = null
      /\ NeverReturns ]_vars

\* C1 witness: operation 3 was appended after an undo of operation 2, which is gone.
C1_Witness ==
  /\ handled.type = "draw:event"
  /\ "default" \in DOMAIN rooms
  /\ Len(rooms["default"].operations) = 2
  /\ rooms["default"].operations[1].id = 1
  /\ rooms["default"].operations[2].id = 3

\* The visible sequence of a room after undo() followed at once by redo().
AfterUndoRedo(room) == RoomGetOperations(RoomRedo(RoomUndo(room).room).room)

\* C2 as stated: for every log state, undo() followed by redo() leaves
\* getOperations() as it was.
C2_UndoRedoSymmetry ==
  \A r \in DOMAIN rooms : AfterUndoRedo(rooms[r]) = RoomGetOperations(rooms[r])

\* C2 amended: undo() followed by redo() leaves getOperations() as it was in every
\* log state whose cursor is at least 0 or whose operation list is empty.
C2_UndoRedoSymmetryWhenUndone ==
  \A r \in DOMAIN rooms :
    (rooms[r].currentOperationIndex >= 0 \/ Len(rooms[r].operations) = 0)
      => AfterUndoRedo(rooms[r]) = RoomGetOperations(rooms[r])

\* C2 witness: a redo has just restored an operation of a log with two operations
\* or more, so an undo went before it.
C2_Witness ==
  /\ handled.type = "operation:redo"
  /\ Len(emitted) = 1
  /\ "default" \in DOMAIN rooms
  /\ Len(rooms["default"].operations) >= 2
  /\ rooms["default"].currentOperationIndex >= 0

\* C3: undo() at cursor -1 and redo() at cursor length-1 return null and change
\* neither the operation list nor the cursor (and the handler emits nothing).
C3_BoundaryNoOps ==
  [][ /\ (handled'.type = "operation:undo" /\ RoomBefore.currentOperationIndex = -1)
           => /\ RoomAfter = RoomBefore
              /\ RoomUndo(RoomBefore).result = null
              /\ emitted' = <<>>
      /\ (/\ handled'.type = "operation:redo"
          /\ RoomBefore.currentOperationIndex = Len(RoomBefore.operations) - 1)
           => /\ RoomAfter = RoomBefore
              /\ RoomRedo(RoomBefore).result = null
              /\ emitted' = <<>> ]_vars

\* C3 witness: an undo that found a log of operations with everything undone.
C3_Witness ==
  /\ handled.type = "operation:undo"
  /\ emitted = <<>>
  /\ "default" \in DOMAIN rooms
  /\ Len(rooms["default"].operations) >= 1
  /\ rooms["default"].currentOperationIndex = -1

\* C4: after Room.clear() the visible sequence is empty, the cursor is -1, undo()
\* and redo() return null, and no earlier operation comes back.
C4_ClearIsAbsolute ==
  [][ /\ handled'.type = "canvas:clear" =>
           /\ RoomGetOperations(RoomAfter) = <<>>
           /\ RoomAfter.currentOperationIndex = -1
           /\ RoomAfter.operations = <<>>
           /\ RoomUndo(RoomAfter) = [room |-> RoomAfter, result |-> null]
           /\ RoomRedo(RoomAfter) = [room |-> RoomAfter, result |-> null]
      /\ NeverReturns ]_vars

\* C4 witness: a clear of the room after every operation id was issued.
C4_Witness ==
  /\ handled.type = "canvas:clear"
  /\ nextId = MaxOps + 1
  /\ "default" \in DOMAIN rooms
  /\ rooms["default"].operations = <<>>

\* C5: in every room of the registry, -1 <= currentOperationIndex <= length - 1.
C5_CursorInRange ==
  \A r \in DOMAIN rooms :
    /\ -1 <= rooms[r].currentOperationIndex
    /\ rooms[r].currentOperationIndex <= Len(rooms[r].operations) - 1

\* C5 witness: a redo has moved the cursor to the last operation but one.
C5_Witness ==
  /\ handled.type = "operation:redo"
  /\ "default" \in DOMAIN rooms
  /\ Len(rooms["default"].operations) = 3
  /\ rooms["default"].currentOperationIndex = 1

\* C6: the joiner is sent one room:state, and its operations are the room's
\* operations at the indices 0..cursor, in order, and none of those above.
C6_JoinSnapshot ==
  [][ handled'.type = "room:join" =>
        LET c == handled'.conn
            room == rooms'[currentRoom'[c]]
            states == {i \in 1..Len(emitted') : emitted'[i].type = "room:state"}
        IN /\ states = {1}
           /\ emitted'[1].to = {c}
           /\ emitted'[1].payload.operations =
                UpTo(room.operations, room.currentOperationIndex)
           /\ room.operations = GetRoom(rooms, currentRoom'[c])[currentRoom'[c]].operations
           /\ room.currentOperationIndex =
                GetRoom(rooms, currentRoom'[c])[currentRoom'[c]].currentOperationIndex ]_vars

\* C6 witness: a join of a room with two visible operations and one undone.
C6_Witness ==
  /\ handled.type = "room:join"
  /\ Len(emitted[1].payload.operations) = 2
  /\ Len(rooms["default"].operations) = 3

\* C7 as stated: a room enters the registry only by a join of it, is in it after
\* a join, leaves it with the disconnect that removes its last participant, and
\* a join of a room that is not in the registry is answered with an empty log.
C7_RoomLifecycle ==
  [][ /\ \A r \in RoomIds :
           (r \notin DOMAIN rooms /\ r \in DOMAIN rooms')
             => (handled'.type = "room:join" /\ currentRoom'[handled'.conn] = r)
      /\ handled'.type = "room:join" => currentRoom'[handled'.conn] \in DOMAIN rooms'
      /\ handled'.type = "disconnect" =>
           \A r \in DOMAIN rooms :
             (r \in DOMAIN rooms' /\ rooms[r].users # EmptyMap)
               => rooms'[r].users # EmptyMap
      /\ (handled'.type = "room:join" /\ currentRoom'[handled'.conn] \notin DOMAIN rooms)
           => emitted'[1].payload.operations = <<>> ]_vars

\* No message is in flight in either direction.
Quiescent == \A c \in Conns : c2s[c] = <<>> /\ s2c[c] = <<>>
\* The clients that hold a socket.
Online == {u \in UserIds : sock[u] # NoSock}
\* The 1-based place of the operation with an id in a list holding it.
Place(ops, id) == CHOOSE i \in 1..Len(ops) : ops[i].id = id
\* Two lists hold the operations they share in the same relative order.
SameOrder(a, b) ==
  \A x, y \in Ids(a) \cap Ids(b) :
    (Place(a, x) < Place(a, y)) <=> (Place(b, x) < Place(b, y))

\* C8 as stated: once every message is delivered, the clients hold the strokes
\* they share in the same relative order, and that order is the server's.
C8_SameOrderEverywhere ==
  Quiescent =>
    \A u \in Online :
      /\ \A v \in Online : SameOrder(canvas[u].operations, canvas[v].operations)
      /\ "default" \in DOMAIN rooms
           => SameOrder(canvas[u].operations, rooms["default"].operations)

\* C9 as stated: with two clients or more in the room, whenever no message is
\* in flight, what each client shows is the server's getOperations() of the room.
C9_ClientsShowServerLog ==
  (Quiescent /\ Cardinality(Online) >= 2) =>
    \A u \in Online :
      "default" \in DOMAIN rooms
        => CanvasVisible(canvas[u]) = RoomGetOperations(rooms["default"])

\* C10: an operation:undo from a connection bound to a room with cursor i >= 0
\* is answered with one operation:undo to every connection bound to the room, the
\* requester included, naming the operation at index i and the cursor i - 1; with
\* cursor -1 nothing is sent.
C10_UndoBroadcast ==
  [][ (handled'.type = "operation:undo" /\ currentUser[handled'.conn] # nullUser) =>
        LET i == RoomBefore.currentOperationIndex
        IN IF i >= 0
           THEN /\ Len(emitted') = 1
                /\ emitted'[1].type = "operation:undo"
                /\ emitted'[1].to = InRoom(StepRoomId)
                /\ handled'.conn \in emitted'[1].to
                /\ emitted'[1].payload =
                     [operationId |-> RoomBefore.operations[i + 1].id, currentIndex |-> i - 1]
           ELSE emitted' = <<>> ]_vars

\* C10 witness: an undo by a bound connection reached three connections.
C10_Witness ==
  /\ handled.type = "operation:undo"
  /\ currentUser[handled.conn] # nullUser
  /\ Len(emitted) = 1
  /\ Cardinality(emitted[1].to) = 3
  /\ emitted[1].payload.currentIndex = 0

\* C11: an operation:redo from a connection bound to a room with cursor
\* i < length - 1 is answered with one operation:redo to every connection bound
\* to the room, the requester included, naming the operation at index i + 1 and
\* the cursor i + 1; with the cursor at length - 1 nothing is sent.
C11_RedoBroadcast ==
  [][ (handled'.type = "operation:redo" /\ currentUser[handled'.conn] # nullUser) =>
        LET i == RoomBefore.currentOperationIndex
        IN IF i < Len(RoomBefore.operations) - 1
           THEN /\ Len(emitted') = 1
                /\ emitted'[1].type = "operation:redo"
                /\ emitted'[1].to = InRoom(StepRoomId)
                /\ handled'.conn \in emitted'[1].to
                /\ emitted'[1].payload =
                     [operationId |-> RoomBefore.operations[i + 2].id, currentIndex |-> i + 1]
           ELSE emitted' = <<>> ]_vars

\* C11 witness: a redo by a bound connection restored the second operation and
\* reached three connections.
C11_Witness ==
  /\ handled.type = "operation:redo"
  /\ currentUser[handled.conn] # nullUser
  /\ Len(emitted) = 1
  /\ Cardinality(emitted[1].to) = 3
  /\ emitted[1].payload.currentIndex = 1

\* C12: a draw:event from a connection bound to a room appends the operation to
\* the room's log and is sent, carrying the stored operation, to exactly the other
\* connections bound to the room and never to the sender; the operation sent is
\* then the last entry of the room's visible sequence.
C12_DrawRelay ==
  [][ (handled'.type = "draw:event" /\ currentUser[handled'.conn] # nullUser) =>
        /\ Len(emitted') = 1
        /\ emitted'[1].type = "draw:event"
        /\ emitted'[1].to = InRoom(StepRoomId) \ {handled'.conn}
        /\ handled'.conn \notin emitted'[1].to
        /\ emitted'[1].payload.id = handled'.data.id
        /\ emitted'[1].payload.userId = handled'.data.userId
        /\ RoomAfter.operations =
             Append(UpTo(RoomBefore.operations, RoomBefore.currentOperationIndex),
                    emitted'[1].payload)
        /\ RoomGetOperations(RoomAfter) # <<>>
        /\ RoomGetOperations(RoomAfter)[Len(RoomGetOperations(RoomAfter))] =
             emitted'[1].payload ]_vars

\* C12 witness: the third operation of a room, drawn by a bound connection, was
\* sent to the two other connections bound to the room.
C12_Witness ==
  /\ handled.type = "draw:event"
  /\ currentUser[handled.conn] # nullUser
  /\ Len(emitted) = 1
  /\ Cardinality(emitted[1].to) = 2
  /\ Len(rooms[currentRoom[handled.conn]].operations) = 3

\* C13: on a room:join three messages are sent, in this order: room:state to the
\* joiner only, with a users list that holds the joiner; user:joined, naming the
\* joiner, to every other connection bound to the room; users:update, with the
\* room's whole participant list, to every connection bound to the room, the
\* joiner included.
C13_JoinSequence ==
  [][ handled'.type = "room:join" =>
        LET c == handled'.conn
            r == currentRoom'[c]
        IN /\ Len(emitted') = 3
           /\ emitted'[1].type = "room:state"
           /\ emitted'[1].to = {c}
           /\ currentUser'[c] \in emitted'[1].payload.users
           /\ emitted'[2].type = "user:joined"
           /\ emitted'[2].to = InRoomAfter(r) \ {c}
           /\ emitted'[2].payload = currentUser'[c]
           /\ emitted'[3].type = "users:update"
           /\ emitted'[3].to = InRoomAfter(r)
           /\ c \in emitted'[3].to
           /\ emitted'[3].payload = RoomGetUsers(rooms'[r])
           /\ currentUser'[c] \in emitted'[3].payload ]_vars

\* C13 witness: a connection joined room r1, where two connections were bound
\* already and a third participant is listed.
C13_Witness ==
  /\ handled.type = "room:join"
  /\ currentRoom[handled.conn] = "r1"
  /\ Len(emitted) = 3
  /\ Cardinality(emitted[2].to) = 2
  /\ Cardinality(emitted[3].to) = 3
  /\ Cardinality(emitted[1].payload.users) = 3

\* C14: the disconnect of a connection bound to a room with participant p takes
\* p out of the room's participant set, sends user:left naming p and then
\* users:update with the list without p to every connection still bound to the
\* room, and removes the room from the registry in the same step if its
\* participant set is then empty.
C14_DisconnectLeaves ==
  [][ (handled'.type = "disconnect" /\ currentUser[handled'.conn] # nullUser) =>
        LET c == handled'.conn
            p == currentUser[c]
            rest == InRoom(StepRoomId) \ {c}
            others == DOMAIN RoomBefore.users \ {p.id}
        IN /\ StepRoomId \in DOMAIN rooms' => p.id \notin DOMAIN RoomAfter.users
           /\ others = {} => StepRoomId \notin DOMAIN rooms'
           /\ others # {} =>
                /\ StepRoomId \in DOMAIN rooms'
                /\ RoomAfter.users = [k \in others |-> RoomBefore.users[k]]
           /\ Len(emitted') = 2
           /\ emitted'[1] = [type |-> "user:left", to |-> rest, payload |-> p]
           /\ emitted'[2].type = "users:update"
           /\ emitted'[2].to = rest
           /\ emitted'[2].payload = {RoomBefore.users[k] : k \in others}
           /\ p \notin emitted'[2].payload ]_vars

\* C14 witness: a connection bound to room r1 disconnected and the two
\* connections still bound to it were told; the room stays with two participants.
C14_Witness ==
  /\ handled.type = "disconnect"
  /\ Len(emitted) = 2
  /\ Cardinality(emitted[1].to) = 2
  /\ "r1" \in DOMAIN rooms
  /\ Cardinality(DOMAIN rooms["r1"].users) = 2
  /\ \A c \in emitted[1].to : currentRoom[c] = "r1"

\* C15 as stated: when a connection bound to a room R1 sends a room:join for
\* another room R2, afterwards its participant is not in R1's participant set
\* and is in R2's, and the connection is no longer among those R1's broadcasts
\* reach.
C15_SwitchLeavesOldRoom ==
  [][ (/\ handled'.type = "room:join"
       /\ currentUser[handled'.conn] # nullUser
       /\ currentRoom'[handled'.conn] # currentRoom[handled'.conn]) =>
        LET c == handled'.conn
            R1 == currentRoom[c]
            R2 == currentRoom'[c]
        IN /\ R1 \in DOMAIN rooms' => currentUser[c].id \notin DOMAIN rooms'[R1].users
           /\ currentUser'[c].id \in DOMAIN rooms'[R2].users
           /\ R1 \notin joined'[c]
           /\ c \notin IoToEmit(joined', R1, "any", "none").to ]_vars

\* The events of a connection that C16 is about.
RoomEvents ==
  {"draw:event", "operation:undo", "operation:redo", "canvas:clear", "cursor:move",
   "disconnect"}

\* C16: a draw, undo, redo, clear, cursor:move or disconnect of a connection bound
\* to a room leaves every other room as it was (in or out of the registry, its
\* operation list, cursor and participant set), and none of its messages is sent
\* to a connection bound to another room.
C16_RoomIsolation ==
  [][ (handled'.type \in RoomEvents /\ currentUser[handled'.conn] # nullUser) =>
        /\ \A r \in RoomIds \ {StepRoomId} :
             /\ r \in DOMAIN rooms <=> r \in DOMAIN rooms'
             /\ r \in DOMAIN rooms =>
                  /\ rooms'[r].operations = rooms[r].operations
                  /\ rooms'[r].currentOperationIndex = rooms[r].currentOperationIndex
                  /\ rooms'[r].users = rooms[r].users
        /\ \A i \in 1..Len(emitted') :
             \A r \in RoomIds \ {StepRoomId} : emitted'[i].to \cap InRoom(r) = {} ]_vars

\* C16 witness: a stroke drawn in room r1 was sent to the other connection bound
\* to r1 while a third connection is bound to room default, which holds a stroke.
C16_Witness ==
  /\ handled.type = "draw:event"
  /\ currentUser[handled.conn] # nullUser
  /\ currentRoom[handled.conn] = "r1"
  /\ Len(emitted) = 1
  /\ Cardinality(emitted[1].to) = 1
  /\ InRoom("default") # {}
  /\ "default" \in DOMAIN rooms
  /\ Len(rooms["default"].operations) = 1

\* C17: a canvas:clear from a connection bound to a room empties the room's
\* operation list and sets its cursor to -1 whatever they held, an empty log
\* included, and one canvas:clear is sent to every connection bound to the room,
\* the requester included.
C17_ClearBroadcast ==
  [][ (handled'.type = "canvas:clear" /\ currentUser[handled'.conn] # nullUser) =>
        /\ RoomAfter.operations = <<>>
        /\ RoomAfter.currentOperationIndex = -1
        /\ RoomAfter.users = RoomBefore.users
        /\ Len(emitted') = 1
        /\ emitted'[1].type = "canvas:clear"
        /\ emitted'[1].to = InRoom(StepRoomId)
        /\ handled'.conn \in emitted'[1].to ]_vars

\* C17 witness: a bound connection cleared a room in which nothing was ever
\* drawn, so its log was empty already, and three connections were told.
C17_Witness ==
  /\ handled.type = "canvas:clear"
  /\ currentUser[handled.conn] # nullUser
  /\ Len(emitted) = 1
  /\ Cardinality(emitted[1].to) = 3
  /\ nextId = 1
  /\ rooms[currentRoom[handled.conn]].currentOperationIndex = -1

\* C18: a room:join whose payload has no roomId binds the connection to the room
\* "default", and one with no userId registers the participant under the
\* socket's own id; either one is followed by the whole join sequence (room:state
\* to the joiner, user:joined to the others, users:update to the room).
C18_JoinDefaults ==
  [][ handled'.type = "room:join" =>
        LET c == handled'.conn
            data == handled'.data
            r == currentRoom'[c]
        IN /\ data.roomId = Absent =>
                /\ r = "default"
                /\ joined'[c] = {"default"}
                /\ "default" \in DOMAIN rooms'
           /\ data.userId = Absent =>
                /\ currentUser'[c] = [id |-> c, socketId |-> c]
                /\ c \in DOMAIN rooms'[r].users
                /\ rooms'[r].users[c] = currentUser'[c]
                /\ c \in DOMAIN users' /\ users'[c] = currentUser'[c]
           /\ (data.roomId = Absent \/ data.userId = Absent) =>
                /\ [i \in 1..Len(emitted') |-> emitted'[i].type] =
                     <<"room:state", "user:joined", "users:update">>
                /\ emitted'[1].to = {c}
                /\ emitted'[2].to = InRoomAfter(r) \ {c}
                /\ emitted'[3].to = InRoomAfter(r) ]_vars

\* C18 witness: a connection bound to room r1 sent a room:join naming neither a
\* room nor a user, and is now a participant of room default under its socket
\* id, announced to a connection that was there before.
C18_Witness ==
  /\ handled.type = "room:join"
  /\ handled.data = [roomId |-> Absent, userId |-> Absent]
  /\ currentRoom[handled.conn] = "default"
  /\ handled.conn \in DOMAIN rooms["default"].users
  /\ "r1" \in DOMAIN rooms
  /\ handled.conn \in DOMAIN rooms["r1"].users
  /\ Len(emitted) = 3
  /\ Cardinality(emitted[2].to) >= 1

\* C19: a cursor:move from a connection bound to a room changes nothing on the
\* server (no room's log, cursor or participant set, no room created, no
\* binding), and is sent, with the payload as received, to every other
\* connection bound to the sender's room and not to the sender.
C19_CursorRelay ==
  [][ (handled'.type = "cursor:move" /\ currentUser[handled'.conn] # nullUser) =>
        /\ rooms' = rooms
        /\ users' = users
        /\ joined' = joined
        /\ currentRoom' = currentRoom
        /\ currentUser' = currentUser
        /\ connState' = connState
        /\ Len(emitted') = 1
        /\ emitted'[1].type = "cursor:move"
        /\ emitted'[1].to = InRoom(StepRoomId) \ {handled'.conn}
        /\ handled'.conn \notin emitted'[1].to
        /\ emitted'[1].payload = handled'.data ]_vars

\* C19 witness: a cursor position of a bound connection was forwarded to the two
\* other connections bound to its room, which holds a stroke.
C19_Witness ==
  /\ handled.type = "cursor:move"
  /\ currentUser[handled.conn] # nullUser
  /\ Len(emitted) = 1
  /\ Cardinality(emitted[1].to) = 2
  /\ emitted[1].payload.x = "x2"
  /\ Len(rooms[currentRoom[handled.conn]].operations) >= 1

\* C20: a ping from a connection, bound to a room or not, is answered with one
\* pong carrying the token received, sent to that connection only, and changes
\* neither the registry, a log, a participant set, the users map nor a binding.
C20_PingPong ==
  [][ handled'.type = "ping" =>
        /\ emitted' = << [type |-> "pong", to |-> {handled'.conn},
                          payload |-> handled'.data] >>
        /\ rooms' = rooms
        /\ users' = users
        /\ joined' = joined
        /\ currentRoom' = currentRoom
        /\ currentUser' = currentUser
        /\ connState' = connState ]_vars

\* C20 witness: a connection that never joined was answered its second token
\* while two connections are bound to a room that holds a stroke.
C20_Witness ==
  /\ handled.type = "ping"
  /\ handled.data = "t2"
  /\ currentUser[handled.conn] = nullUser
  /\ Len(emitted) = 1
  /\ emitted[1].to = {handled.conn}
  /\ Cardinality(InRoom("default")) = 2
  /\ Len(rooms["default"].operations) >= 1

\* C21 as stated: in every reachable state, every live connection that has
\* completed room:join is bound to a room that is in the registry and whose
\* participant set holds the connection's participant id, also after a client
\* has joined again under the same userId and its old connection has closed.
C21_BoundParticipantPresent ==
  \A c \in Attached(sock) :
    (connState[c] = "open" /\ currentUser[c] # nullUser) =>
      /\ currentRoom[c] \in DOMAIN rooms
      /\ currentUser[c].id \in DOMAIN rooms[currentRoom[c]].users

\* C22 as stated: after every handled event, every room in the registry has a
\* participant set that is not empty.
C22_NoEmptyRoom ==
  \A r \in DOMAIN rooms : rooms[r].users # EmptyMap

\* The events C23 is about.
LogEvents == {"draw:event", "operation:undo", "operation:redo", "canvas:clear"}

\* C23 as stated: a draw:event, operation:undo, operation:redo or canvas:clear of
\* a connection that has not sent room:join changes no room's log or cursor,
\* creates no room, and no message is sent to another connection.
C23_UnboundInert ==
  [][ (handled'.type \in LogEvents /\ currentUser[handled'.conn] = nullUser) =>
        /\ DOMAIN rooms' = DOMAIN rooms
        /\ \A r \in DOMAIN rooms \cap DOMAIN rooms' :
             /\ rooms'[r].operations = rooms[r].operations
             /\ rooms'[r].currentOperationIndex = rooms[r].currentOperationIndex
        /\ \A i \in 1..Len(emitted') : emitted'[i].to \subseteq {handled'.conn} ]_vars

\* A client takes the operation:redo at the head of its socket's queue, as the last
\* message in flight, holding the prefix of the server's list that a room:state
\* gave it while the server keeps operations above that prefix (it joined while
\* they were redo-pending).
ReceivesRedoAfterLateJoin(u) ==
  /\ sock[u] # NoSock
  /\ sock' = sock
  /\ s2c[sock[u]] # <<>>
  /\ Head(s2c[sock[u]]).type = "operation:redo"
  /\ s2c' = [s2c EXCEPT ![sock[u]] = Tail(@)]
  /\ Quiescent'
  /\ "default" \in DOMAIN rooms
  /\ rooms["default"].currentOperationIndex = Head(s2c[sock[u]]).payload.currentIndex
  /\ Len(canvas[u].operations) < Len(rooms["default"].operations)
  /\ canvas[u].operations =
       SubSeq(rooms["default"].operations, 1, Len(canvas[u].operations))

\* C24 as stated: a client that joined a room while redo-pending operations
\* existed above the cursor and then receives operation:redo with currentIndex k
\* shows exactly the server's operations at the indices 0..k.
C24_RedoAfterLateJoin ==
  [][ \A u \in UserIds :
        ReceivesRedoAfterLateJoin(u) =>
          CanvasVisible(canvas'[u]) =
            UpTo(rooms["default"].operations, rooms["default"].currentOperationIndex) ]_vars

\* A client takes the room:state at the head of its socket's queue.
ReceivesRoomState(u) ==
  /\ sock[u] # NoSock
  /\ sock' = sock
  /\ s2c[sock[u]] # <<>>
  /\ Head(s2c[sock[u]]).type = "room:state"
  /\ s2c' = [s2c EXCEPT ![sock[u]] = Tail(@)]

\* C25 as stated: after a client handles room:state, on its first join or on a
\* reconnect, its operation list is the snapshot's and its cursor is the
\* snapshot's length minus one, whatever it held before, an empty snapshot
\* included.
C25_RoomStateRebuilds ==
  [][ \A u \in UserIds :
        ReceivesRoomState(u) =>
          LET snapshot == Head(s2c[sock[u]]).payload.operations
          IN canvas'[u] = [operations |-> snapshot,
                           currentOperationIndex |-> Len(snapshot) - 1] ]_vars

\* C26 as stated: in every state where every connection that ever connected has
\* disconnected, the room registry is empty and the users map is empty.
C26_AllGoneAllClean ==
  (\A c \in Conns : connState[c] # "open") => (rooms = EmptyMap /\ users = EmptyMap)

\* C27 as stated: the disconnect of a connection that never sent room:join
\* removes no participant, changes no room's operation list or cursor, removes
\* no room that has participants or operations, and sends nothing.
C27_UnboundDisconnectNoOp ==
  [][ (handled'.type = "disconnect" /\ currentUser[handled'.conn] = nullUser) =>
        /\ \A r \in DOMAIN rooms :
             (rooms[r].users # EmptyMap \/ rooms[r].operations # <<>>)
               => r \in DOMAIN rooms'
        /\ \A r \in DOMAIN rooms \cap DOMAIN rooms' : rooms'[r] = rooms[r]
        /\ DOMAIN rooms' \subseteq DOMAIN rooms
        /\ users' = users
        /\ emitted' = <<>> ]_vars

====
